---------------------------- MODULE Spec2Model ----------------------------
(***************************************************************************)
(* A model of samplr's core (src/samplr/core.py): timestamp resolution,    *)
(* the three sampling policies, and the copy-and-rename allocator.         *)
(*                                                                         *)
(* File names are sequences of one-character strings, so that suffix and   *)
(* stem extraction, glob matching, integer parsing and zero-padded         *)
(* formatting are computed the way the Python code computes them.          *)
(***************************************************************************)
EXTENDS Integers, Sequences, FiniteSets, TLC

VARIABLES
    src,        \* source directory: file name -> image metadata
    dest,       \* destination directory: the set of file names in it
    base_name,  \* ImageSampler.base_name (NoBase models None)
    call,       \* the last sampling call made and its arguments
    ret,        \* how that call ended: a list of paths or an exception
    runs,       \* one record per completed copy_and_rename call
    resolved,   \* the outcome of the last _get_image_datetime call made alone
    procs       \* the copy_and_rename calls in progress at the same time

vars == <<src, dest, base_name, call, ret, runs, resolved, procs>>

----------------------------------------------------------------------------
(* Bounds of the model.                                                    *)

MaxFiles == 4   \* files in the source directory (selection specification)
MaxSel   == 2   \* paths in one copy_and_rename selection
MaxRuns  == 2   \* successive copy_and_rename calls

----------------------------------------------------------------------------
(* Characters and strings.                                                 *)

\* The characters used in file names, in code point order.
Chars ==
    << "-", ".",
       "0", "1", "2", "3", "4", "5", "6", "7", "8", "9",
       "A", "B", "C", "D", "E", "F", "G", "H", "I", "J", "K", "L", "M",
       "N", "O", "P", "Q", "R", "S", "T", "U", "V", "W", "X", "Y", "Z",
       "_",
       "a", "b", "c", "d", "e", "f", "g", "h", "i", "j", "k", "l", "m",
       "n", "o", "p", "q", "r", "s", "t", "u", "v", "w", "x", "y", "z" >>

Digits == << "0", "1", "2", "3", "4", "5", "6", "7", "8", "9" >>

UpperCase ==
    << "A", "B", "C", "D", "E", "F", "G", "H", "I", "J", "K", "L", "M",
       "N", "O", "P", "Q", "R", "S", "T", "U", "V", "W", "X", "Y", "Z" >>

LowerCase ==
    << "a", "b", "c", "d", "e", "f", "g", "h", "i", "j", "k", "l", "m",
       "n", "o", "p", "q", "r", "s", "t", "u", "v", "w", "x", "y", "z" >>

\* the position of each character in that order
CharIndex ==
    [c \in {Chars[i] : i \in DOMAIN Chars} |-> CHOOSE i \in DOMAIN Chars : Chars[i] = c]

Ord(c) == CharIndex[c]

DigitSet == {Digits[i] : i \in DOMAIN Digits}

DigitIndex == [c \in DigitSet |-> CHOOSE i \in DOMAIN Digits : Digits[i] = c]

IsDigit(c) == c \in DigitSet

DigitValue(c) == DigitIndex[c] - 1

UpperIndex ==
    [c \in {UpperCase[i] : i \in DOMAIN UpperCase} |->
        CHOOSE i \in DOMAIN UpperCase : UpperCase[i] = c]

\* str.lower() on one character
LowerChar(c) ==
    IF c \in DOMAIN UpperIndex THEN LowerCase[UpperIndex[c]] ELSE c

\* str.lower()
Lower(s) == [i \in DOMAIN s |-> LowerChar(s[i])]

\* s[i:] and s[:i], with Python's 0-based positions
From(s, i) == SubSeq(s, i + 1, Len(s))
Upto(s, i) == SubSeq(s, 1, i)

StartsWith(s, p) == Len(p) <= Len(s) /\ Upto(s, Len(p)) = p
EndsWith(s, p)   == Len(p) <= Len(s) /\ From(s, Len(s) - Len(p)) = p

\* str.rfind(c): the 0-based position of the last c in s, -1 when there is none
RECURSIVE RFindBelow(_, _, _)
RFindBelow(s, c, n) ==
    IF n = 0 THEN -1
    ELSE IF s[n] = c THEN n - 1
    ELSE RFindBelow(s, c, n - 1)

RFind(s, c) == RFindBelow(s, c, Len(s))

\* the order of str (and of Path objects of one directory): by code point,
\* a proper prefix first
RECURSIVE StrLess(_, _)
StrLess(a, b) ==
    IF b = <<>> THEN FALSE
    ELSE IF a = <<>> THEN TRUE
    ELSE IF a[1] # b[1] THEN Ord(a[1]) < Ord(b[1])
    ELSE StrLess(Tail(a), Tail(b))

\* sorted(S) for a set S of distinct names
RECURSIVE Sorted(_)
Sorted(S) ==
    IF S = {} THEN <<>>
    ELSE LET m == CHOOSE x \in S : \A y \in S \ {x} : StrLess(x, y)
         IN  <<m>> \o Sorted(S \ {m})

\* s.split('_')[-1]
LastPart(s) == From(s, RFind(s, "_") + 1)

\* '_'.join(s.split('_')[:-1]), for s containing an underscore
DropLastPart(s) == Upto(s, RFind(s, "_"))

\* str.replace(old, new): every non-overlapping occurrence, left to right
RECURSIVE Replace(_, _, _)
Replace(s, old, new) ==
    IF s = <<>> THEN <<>>
    ELSE IF old # <<>> /\ StartsWith(s, old)
         THEN new \o Replace(From(s, Len(old)), old, new)
         ELSE <<s[1]>> \o Replace(Tail(s), old, new)

----------------------------------------------------------------------------
(* int(str) and format(n, "0{w}d").                                        *)

\* int(s) accepts an optional sign followed by one or more digits
CanParseInt(s) ==
    LET body == IF s # <<>> /\ s[1] \in {"-"} THEN Tail(s) ELSE s
    IN  body # <<>> /\ \A i \in DOMAIN body : IsDigit(body[i])

RECURSIVE DigitsValue(_)
DigitsValue(s) ==
    IF s = <<>> THEN 0
    ELSE 10 * DigitsValue(Upto(s, Len(s) - 1)) + DigitValue(s[Len(s)])

\* int(s) for a string that parses
ParseInt(s) ==
    IF s[1] = "-" THEN 0 - DigitsValue(Tail(s)) ELSE DigitsValue(s)

\* str(n) for n >= 0
RECURSIVE NatStr(_)
NatStr(n) ==
    IF n < 10 THEN <<Digits[n + 1]>>
    ELSE NatStr(n \div 10) \o <<Digits[(n % 10) + 1]>>

\* str(n)
IntStr(n) == IF n < 0 THEN <<"-">> \o NatStr(0 - n) ELSE NatStr(n)

RECURSIVE Zeros(_)
Zeros(k) == IF k <= 0 THEN <<>> ELSE <<"0">> \o Zeros(k - 1)

\* f"{n:0{w}d}": sign first, then zeros up to a total width of w; a number
\* longer than w is written in full
FormatPadded(n, w) ==
    IF n < 0
    THEN <<"-">> \o Zeros(w - 1 - Len(NatStr(0 - n))) \o NatStr(0 - n)
    ELSE Zeros(w - Len(NatStr(n))) \o NatStr(n)

----------------------------------------------------------------------------
(* pathlib: suffix and stem of a file name.                                *)

\* PurePath.suffix: from the last dot, unless that dot is first or last
Suffix(name) ==
    LET i == RFind(name, ".")
    IN  IF 0 < i /\ i < Len(name) - 1 THEN From(name, i) ELSE <<>>

\* PurePath.stem
Stem(name) ==
    LET i == RFind(name, ".")
    IN  IF 0 < i /\ i < Len(name) - 1 THEN Upto(name, i) ELSE name

SUPPORTED_EXTENSIONS ==
    { <<".", "j", "p", "g">>, <<".", "j", "p", "e", "g">>,
      <<".", "p", "n", "g">>, <<".", "g", "i", "f">> }

\* [f for f in dir.glob("*") if f.suffix.lower() in SUPPORTED_EXTENSIONS]
SupportedFiles(names) == {f \in names : Lower(Suffix(f)) \in SUPPORTED_EXTENSIONS}

----------------------------------------------------------------------------
(* Timestamps and image metadata.                                          *)

Time(h, m, s) == [hour |-> h, minute |-> m, second |-> s]

DateTime(d, h, m, s) == [date |-> d, hour |-> h, minute |-> m, second |-> s]

\* datetime.time()
TimeOf(dt) == Time(dt.hour, dt.minute, dt.second)

\* the order of datetime.time objects: hour, then minute, then second
TimeLE(a, b) ==
    \/ a.hour < b.hour
    \/ a.hour = b.hour /\ a.minute < b.minute
    \/ a.hour = b.hour /\ a.minute = b.minute /\ a.second <= b.second

NoDateTime == DateTime(0, 0, 0, 0)

\* An EXIF tag of an image: absent, present with a string dateutil rejects,
\* or present with a string dateutil parses to dt.
AbsentTag  == [st |-> "absent", dt |-> NoDateTime]
BadTag     == [st |-> "bad", dt |-> NoDateTime]
GoodTag(t) == [st |-> "ok", dt |-> t]

\* What a file is to _get_image_datetime:
\*   open   "ok", or "OSError" when Image.open raises (PIL's
\*          UnidentifiedImageError for a file that is no image is an OSError)
\*   exif   what img._getexif() does: "AttributeError" (the format has no
\*          _getexif), "empty" (None or {}), or "dict"
\*   t36867, t306   the two tags of that dict
\*   mtime  the file's st_mtime as a local datetime
Meta(o, e, a, b, t) == [open |-> o, exif |-> e, t36867 |-> a, t306 |-> b, mtime |-> t]

Returned(dt) == [exc |-> "none", dt |-> dt]
Raised(e)    == [exc |-> e, dt |-> NoDateTime]

\* the loop over [36867, 306]: the first tag present decides; parse() either
\* returns or raises ValueError
ExifLoop(m) ==
    IF m.t36867.st # "absent"
    THEN IF m.t36867.st = "ok" THEN Returned(m.t36867.dt) ELSE Raised("ValueError")
    ELSE IF m.t306.st # "absent"
    THEN IF m.t306.st = "ok" THEN Returned(m.t306.dt) ELSE Raised("ValueError")
    ELSE Raised("fallthrough")

\* the exceptions the except clause of _get_image_datetime names
Caught == {"AttributeError", "KeyError", "TypeError", "ValueError"}

\* _get_image_datetime: the datetime returned, or the exception that leaves it
GetImageDatetime(m) ==
    LET body ==
            IF m.open # "ok" THEN Raised(m.open)
            ELSE IF m.exif = "AttributeError" THEN Raised("AttributeError")
            ELSE IF m.exif = "empty" THEN Raised("fallthrough")
            ELSE ExifLoop(m)
    IN  IF body.exc = "none" THEN body
        ELSE IF body.exc \in Caught \cup {"fallthrough"} THEN Returned(m.mtime)
        ELSE body

\* _is_within_time_range
IsWithinTimeRangeOpen(dt, start_time, end_time) ==
    LET current_time == TimeOf(dt)
    IN  IF TimeLE(start_time, end_time)
        THEN TimeLE(start_time, current_time) /\ ~TimeLE(end_time, current_time)
        ELSE TimeLE(start_time, current_time) \/ TimeLE(current_time, end_time)

IsWithinTimeRange(dt, start_time, end_time) ==
    LET current_time == TimeOf(dt)
    IN  IF TimeLE(start_time, end_time)
        THEN TimeLE(start_time, current_time) /\ TimeLE(current_time, end_time)
        ELSE TimeLE(start_time, current_time) \/ TimeLE(current_time, end_time)

Abs(x) == IF x < 0 THEN 0 - x ELSE x

\* a distance that wraps past midnight
CircularDistance(dt, target_time) ==
    LET d == Abs((dt.hour * 60 + dt.minute) - (target_time.hour * 60 + target_time.minute))
    IN  IF d > 720 THEN 1440 - d ELSE d

\* the key of min() in sample_closest_to_time
MinuteDistance(dt, target_time) ==
    Abs((dt.hour * 60 + dt.minute) - (target_time.hour * 60 + target_time.minute))

----------------------------------------------------------------------------
(* The sampling policies.                                                  *)

CeilDiv(a, b) == (a + b - 1) \div b

\* s[::n] taken from the second element on
SliceFromSecond(s, n) ==
    IF n > 0
    THEN [i \in 1..CeilDiv(Len(s) - 1, n) |-> s[(i - 1) * n + 2]]
    ELSE [i \in 1..CeilDiv(Len(s), 0 - n) |-> s[Len(s) - (i - 1) * (0 - n)]]

\* s[::n] for n # 0: from the first element forwards when n > 0, from the
\* last element backwards when n < 0
Slice(s, n) ==
    IF n > 0
    THEN [i \in 1..CeilDiv(Len(s), n) |-> s[(i - 1) * n + 1]]
    ELSE [i \in 1..CeilDiv(Len(s), 0 - n) |-> s[Len(s) - (i - 1) * (0 - n)]]

NoTime == Time(0, 0, 0)

NoCall == [op |-> "none", n |-> 0, target |-> NoTime, start |-> NoTime, end |-> NoTime]

ReturnList(l) == [kind |-> "list", val |-> l, exc |-> "none"]
RaiseExc(e)   == [kind |-> "raise", val |-> <<>>, exc |-> e]
NoRet         == [kind |-> "none", val |-> <<>>, exc |-> "none"]

\* the datetime _get_image_datetime returns for source file f
ResolvedOf(f) == GetImageDatetime(src[f]).dt

\* some supported file makes _get_image_datetime raise
ResolveRaises == \E f \in SupportedFiles(DOMAIN src) : GetImageDatetime(src[f]).exc # "none"

ResolveException ==
    LET f == CHOOSE g \in SupportedFiles(DOMAIN src) : GetImageDatetime(src[g]).exc # "none"
    IN  GetImageDatetime(src[f]).exc

\* A sampling call reads the source directory and changes nothing of it, so
\* a call made after another reaches no state the first could not: each call
\* is made from the state after construction.
NotCalled == call.op = "none"

\* sample_every_nth(n)
SampleEveryNth(n) ==
    /\ NotCalled
    /\ call' = [NoCall EXCEPT !.op = "sample_every_nth", !.n = n]
    /\ LET image_files == Sorted(SupportedFiles(DOMAIN src))
       IN  ret' = IF n = 0 THEN RaiseExc("ValueError")
                  ELSE ReturnList(Slice(image_files, n))
    /\ UNCHANGED <<src, dest, base_name, runs, resolved, procs>>

\* sample_closest_to_time(target_time).  min() keeps the first of several
\* images at the same distance, and the order of glob("*") is the
\* directory's: any image at the least distance of its date may be the one.
SampleClosestToTime(target_time) ==
    /\ NotCalled
    /\ call' = [NoCall EXCEPT !.op = "sample_closest_to_time", !.target = target_time]
    /\ LET image_files == SupportedFiles(DOMAIN src)
           dates       == {ResolvedOf(f).date : f \in image_files}
           OnDate(d)   == {f \in image_files : ResolvedOf(f).date = d}
           Closest(d)  == {f \in OnDate(d) : \A g \in OnDate(d) :
                              MinuteDistance(ResolvedOf(f), target_time)
                                  <= MinuteDistance(ResolvedOf(g), target_time)}
       IN  IF ResolveRaises
           THEN ret' = RaiseExc(ResolveException)
           ELSE \E closest_image \in [dates -> image_files] :
                    /\ \A d \in dates : closest_image[d] \in Closest(d)
                    /\ ret' = ReturnList(Sorted({closest_image[d] : d \in dates}))
    /\ UNCHANGED <<src, dest, base_name, runs, resolved, procs>>

\* sample_every_nth_in_time_range(n, start_time, end_time)
SampleEveryNthInTimeRange(n, start_time, end_time) ==
    /\ NotCalled
    /\ call' = [op |-> "sample_every_nth_in_time_range", n |-> n, target |-> NoTime,
                start |-> start_time, end |-> end_time]
    /\ LET image_files     == SupportedFiles(DOMAIN src)
           filtered_images == {f \in image_files :
                                  IsWithinTimeRange(ResolvedOf(f), start_time, end_time)}
       IN  ret' = IF ResolveRaises THEN RaiseExc(ResolveException)
                  ELSE IF n = 0 THEN RaiseExc("ValueError")
                  ELSE ReturnList(Slice(Sorted(filtered_images), n))
    /\ UNCHANGED <<src, dest, base_name, runs, resolved, procs>>

----------------------------------------------------------------------------
(* Naming in the destination directory.                                    *)

MinDigits == 4

SetMax(S) == CHOOSE x \in S : \A y \in S : y <= x

Max(a, b) == IF a >= b THEN a ELSE b

\* dest_dir.glob(f"{base_name}_*{suffix}") on one name: the star matches any
\* run of characters, the rest literally and case-sensitively
GlobMatches(name, base, suffix) ==
    /\ Len(name) >= Len(base) + 1 + Len(suffix)
    /\ StartsWith(name, base \o <<"_">>)
    /\ EndsWith(name, suffix)

ExistingFiles(files, base, suffix) == {f \in files : GlobMatches(f, base, suffix)}

\* file.stem.split('_')[-1]
NumStr(name) == LastPart(Stem(name))

\* _get_required_digits, on the listing `files` of the destination
GetRequiredDigits(files, base, suffix) ==
    LET existing_files == ExistingFiles(files, base, suffix)
        nums    == {ParseInt(NumStr(f)) : f \in {g \in existing_files : CanParseInt(NumStr(g))}}
        max_num == SetMax({0} \cup nums)
    IN  IF existing_files = {} THEN MinDigits
        ELSE Max(MinDigits, Len(IntStr(max_num + Cardinality(existing_files))))

\* next_num without the increment past the highest number
NextNumOffByOne(files, base, suffix) ==
    LET existing_files == ExistingFiles(files, base, suffix)
    IN  IF existing_files = {} THEN 1
        ELSE IF \A f \in existing_files : CanParseInt(NumStr(f))
        THEN SetMax({ParseInt(NumStr(f)) : f \in existing_files})
        ELSE 1

\* "Get the next available number" in copy_and_rename: one try block around
\* the max() over all matching files, so one ValueError leaves next_num at 1
NextNum(files, base, suffix) ==
    LET existing_files == ExistingFiles(files, base, suffix)
    IN  IF existing_files = {} THEN 1
        ELSE IF \A f \in existing_files : CanParseInt(NumStr(f))
        THEN SetMax({ParseInt(NumStr(f)) : f \in existing_files}) + 1
        ELSE 1

\* the derivation cutting at the first underscore instead of the last
GetDefaultBaseNameFirstCut(names) ==
    LET image_files == Sorted(SupportedFiles(names))
        stem        == Stem(image_files[1])
        under       == {i \in DOMAIN stem : stem[i] = "_"}
        cut         == IF under # {} THEN Upto(stem, (CHOOSE i \in under : \A j \in under : i <= j) - 1)
                       ELSE stem
    IN  IF image_files = <<>> THEN <<"i", "m", "a", "g", "e">>
        ELSE Replace(cut, <<"C", "O">>, <<"S", "M">>)

\* _get_default_base_name, on the listing `names` of the source directory
GetDefaultBaseName(names) ==
    LET image_files == Sorted(SupportedFiles(names))
        stem        == Stem(image_files[1])
        cut         == IF \E i \in DOMAIN stem : stem[i] = "_" THEN DropLastPart(stem) ELSE stem
    IN  IF image_files = <<>> THEN <<"i", "m", "a", "g", "e">>
        ELSE Replace(cut, <<"C", "O">>, <<"S", "M">>)

NoBase == [given |-> FALSE, name |-> <<>>]

Base(s) == [given |-> TRUE, name |-> s]

\* the base name with the default's substitution applied to a given name too
BaseNameRewritten(given_name, names) ==
    IF given_name.given THEN Replace(given_name.name, <<"C", "O">>, <<"S", "M">>)
    ELSE GetDefaultBaseName(names)

\* self.base_name if self.base_name is not None else self._get_default_base_name()
BaseNameUsed(given_name, names) ==
    IF given_name.given THEN given_name.name ELSE GetDefaultBaseName(names)

\* the suffix taken from the last selected image
SuffixOfLast(selected_images) ==
    IF selected_images # <<>> THEN Suffix(selected_images[Len(selected_images)])
    ELSE <<".", "j", "p", "g">>

\* selected_images[0].suffix if selected_images else '.jpg'
SuffixOfFirst(selected_images) ==
    IF selected_images # <<>> THEN Suffix(selected_images[1])
    ELSE <<".", "j", "p", "g">>

\* f"{base_name}_{next_num:0{required_digits}d}{suffix}"
NewName(base, num, required_digits, suffix) ==
    base \o <<"_">> \o FormatPadded(num, required_digits) \o suffix

\* copy_and_rename(selected_images): shutil.copy2 creates the destination
\* file or replaces the one of that name
CopyAndRename(selected_images) ==
    /\ Len(runs) < MaxRuns
    /\ LET base   == BaseNameUsed(base_name, DOMAIN src)
           suffix == SuffixOfFirst(selected_images)
           required_digits == GetRequiredDigits(dest, base, suffix)
           next_num        == NextNum(dest, base, suffix)
           written == [i \in DOMAIN selected_images |->
                          NewName(base, next_num + i - 1, required_digits, suffix)]
       IN  /\ dest' = dest \cup {written[i] : i \in DOMAIN written}
           /\ runs' = Append(runs, [pre             |-> dest,
                                    selected        |-> selected_images,
                                    base            |-> base,
                                    suffix          |-> suffix,
                                    required_digits |-> required_digits,
                                    first           |-> next_num,
                                    written         |-> written])
    /\ UNCHANGED <<src, base_name, call, ret, resolved, procs>>

\* _get_image_datetime(source_dir / f), called on its own
ResolveTimestamp(f) ==
    /\ resolved' = [file |-> f, exc |-> GetImageDatetime(src[f]).exc,
                    dt |-> GetImageDatetime(src[f]).dt]
    /\ UNCHANGED <<src, dest, base_name, call, ret, runs, procs>>

NoResolved == [file |-> <<>>, exc |-> "unset", dt |-> NoDateTime]

----------------------------------------------------------------------------
(* copy_and_rename step by step, for calls running at the same time.  A    *)
(* call lists the destination twice (once in _get_required_digits, once    *)
(* for next_num) and then copies one file after the other; another call's  *)
(* steps may fall between any two of these.                                *)

Procs == {"p1", "p2"}

NoProcs == [p \in {} |-> 0]

\* a call about to start on selected_images
Started(selected_images) ==
    [pc |-> "digits", selected |-> selected_images, base |-> <<>>, suffix |-> <<>>,
     required_digits |-> 0, next_num |-> 0, copied |-> 0, seen |-> {}, clean |-> FALSE]

\* base name, suffix and _get_required_digits (its own listing of dest)
RaceDigits(p) ==
    /\ p \in DOMAIN procs
    /\ procs[p].pc = "digits"
    /\ LET base   == BaseNameUsed(base_name, DOMAIN src)
           suffix == SuffixOfFirst(procs[p].selected)
       IN  procs' = [procs EXCEPT ![p].pc = "scan",
                                  ![p].base = base,
                                  ![p].suffix = suffix,
                                  ![p].required_digits = GetRequiredDigits(dest, base, suffix)]
    /\ UNCHANGED <<src, dest, base_name, call, ret, runs, resolved>>

\* the second listing of dest and next_num; `seen` keeps the listing read and
\* `clean` whether no call had written a file by then
RaceScan(p) ==
    /\ p \in DOMAIN procs
    /\ procs[p].pc = "scan"
    /\ procs' = [procs EXCEPT
                    ![p].pc = IF procs[p].selected = <<>> THEN "done" ELSE "copy",
                    ![p].next_num = NextNum(dest, procs[p].base, procs[p].suffix),
                    ![p].seen = dest,
                    ![p].clean = \A q \in DOMAIN procs : procs[q].copied = 0]
    /\ UNCHANGED <<src, dest, base_name, call, ret, runs, resolved>>

\* one turn of the copy loop: shutil.copy2 to the next name, replacing
\* whatever file has that name
RaceCopy(p) ==
    /\ p \in DOMAIN procs
    /\ procs[p].pc = "copy"
    /\ dest' = dest \cup {NewName(procs[p].base, procs[p].next_num + procs[p].copied,
                                  procs[p].required_digits, procs[p].suffix)}
    /\ procs' = [procs EXCEPT
                    ![p].copied = procs[p].copied + 1,
                    ![p].pc = IF procs[p].copied + 1 = Len(procs[p].selected)
                              THEN "done" ELSE "copy"]
    /\ UNCHANGED <<src, base_name, call, ret, runs, resolved>>

----------------------------------------------------------------------------
(* Inputs.                                                                 *)

CO_009_jpg == <<"C", "O", "_", "0", "0", "9", ".", "j", "p", "g">>
CO_011_JPG == <<"C", "O", "_", "0", "1", "1", ".", "J", "P", "G">>
CO_013_jpg == <<"C", "O", "_", "0", "1", "3", ".", "j", "p", "g">>
a_png      == <<"a", ".", "p", "n", "g">>
Z_gif      == <<"Z", ".", "g", "i", "f">>
notes_txt  == <<"n", "o", "t", "e", "s", ".", "t", "x", "t">>

\* names a source directory may hold
NamePool == {CO_009_jpg, CO_011_JPG, a_png, Z_gif, notes_txt}

T0005 == DateTime(2, 0, 5, 30)
T0900 == DateTime(2, 9, 0, 0)
T1500 == DateTime(1, 15, 0, 0)
T1501 == DateTime(1, 15, 0, 30)
T2350 == DateTime(2, 23, 50, 0)

\* files as the sampling policies see them: one per way of resolving a
\* capture time, over two dates
MetaPool ==
    { Meta("ok", "empty", AbsentTag, AbsentTag, T0900),
      Meta("ok", "dict", GoodTag(T1500), AbsentTag, T0900),
      Meta("ok", "AttributeError", AbsentTag, AbsentTag, T1501),
      Meta("ok", "dict", BadTag, GoodTag(T2350), T0005),
      Meta("ok", "dict", AbsentTag, GoodTag(T2350), T1500),
      Meta("OSError", "empty", AbsentTag, AbsentTag, T0900) }

\* a file with nothing but a modification time
PlainFile == Meta("ok", "empty", AbsentTag, AbsentTag, T0900)

\* the time-of-day arguments
TimePool == {Time(9, 0, 0), Time(15, 0, 0), Time(23, 50, 0)}

\* the stride arguments
StridePool == (0 - 2)..3

\* every file _get_image_datetime may meet
TagPool == {AbsentTag, BadTag, GoodTag(T1500), GoodTag(T2350)}

\* a file that does not open, or whose _getexif() gives no dictionary, has
\* no tags to read
AllMetas ==
    { Meta("ok", "dict", a, b, t) : a \in TagPool, b \in TagPool, t \in {T0900, T0005} }
    \cup
    { Meta(o, e, AbsentTag, AbsentTag, t) :
          o \in {"ok", "OSError"}, e \in {"AttributeError", "empty"}, t \in {T0900, T0005} }

SM_0001_jpg  == <<"S", "M", "_", "0", "0", "0", "1", ".", "j", "p", "g">>
SM_9998_jpg  == <<"S", "M", "_", "9", "9", "9", "8", ".", "j", "p", "g">>
SM_x_jpg     == <<"S", "M", "_", "x", ".", "j", "p", "g">>
SM_0002_png  == <<"S", "M", "_", "0", "0", "0", "2", ".", "p", "n", "g">>
SM_neg5_jpg  == <<"S", "M", "_", "-", "5", ".", "j", "p", "g">>

\* names the destination directory may hold before the first copy
DestPool == {SM_0001_jpg, SM_9998_jpg, SM_x_jpg, SM_0002_png, SM_neg5_jpg}

\* the source directory of the copy specification
CopySource ==
    [f \in {CO_009_jpg, CO_013_jpg, a_png} |->
        Meta("ok", "empty", AbsentTag, AbsentTag, T0900)]

BaseNames == {NoBase, Base(<<"C", "O">>)}

COCO_a_01_jpg == <<"C", "O", "C", "O", "_", "a", "_", "0", "1", ".", "j", "p", "g">>
BCOx_PNG      == <<"B", "C", "O", "x", ".", "P", "N", "G">>
A_txt         == <<"A", ".", "t", "x", "t">>
us_x_gif      == <<"_", "x", ".", "g", "i", "f">>

\* names of source files the default base name may be derived from
BasePool == {CO_009_jpg, COCO_a_01_jpg, BCOx_PNG, A_txt, us_x_gif, a_png}

\* the selections handed to copy_and_rename: what a sampling policy returns,
\* a subsequence of the sorted source listing, of at most MaxSel paths
RECURSIVE SubSeqs(_)
SubSeqs(s) ==
    IF s = <<>> THEN {<<>>}
    ELSE LET rest == SubSeqs(Tail(s))
         IN  rest \cup {<<s[1]>> \o r : r \in rest}

Selections ==
    {sel \in SubSeqs(Sorted(SupportedFiles(DOMAIN src))) : Len(sel) <= MaxSel}

----------------------------------------------------------------------------
(* Specifications.                                                         *)

\* the sampling policies over every small source directory; a file with an
\* unsupported extension is never opened, and is given one metadata only
InitSelect ==
    /\ \E names \in SUBSET NamePool :
          /\ Cardinality(names) <= MaxFiles
          /\ src \in [names -> MetaPool]
          /\ \A f \in names \ SupportedFiles(names) : src[f] = PlainFile
    /\ dest = {}
    /\ base_name = NoBase
    /\ call = NoCall
    /\ ret = NoRet
    /\ runs = <<>>
    /\ resolved = NoResolved
    /\ procs = NoProcs

NextSelect ==
    \/ \E n \in StridePool : SampleEveryNth(n)
    \/ \E t \in TimePool : SampleClosestToTime(t)
    \/ \E n \in StridePool, s \in TimePool, e \in TimePool :
          SampleEveryNthInTimeRange(n, s, e)

SpecSelect == InitSelect /\ [][NextSelect]_vars

\* successive copy_and_rename calls into every destination directory
InitCopy ==
    /\ src = CopySource
    /\ dest \in SUBSET DestPool
    /\ base_name \in BaseNames
    /\ call = NoCall
    /\ ret = NoRet
    /\ runs = <<>>
    /\ resolved = NoResolved
    /\ procs = NoProcs

NextCopy == \E sel \in Selections : CopyAndRename(sel)

SpecCopy == InitCopy /\ [][NextCopy]_vars

\* the first copy_and_rename call out of every small source directory: the
\* base name depends on the source listing and on base_name alone, which no
\* call changes, so a later call derives the same one
InitBase ==
    /\ \E names \in SUBSET BasePool :
          /\ Cardinality(names) <= MaxFiles
          /\ src = [f \in names |-> PlainFile]
    /\ dest = {}
    /\ base_name \in BaseNames
    /\ call = NoCall
    /\ ret = NoRet
    /\ runs = <<>>
    /\ resolved = NoResolved
    /\ procs = NoProcs

NextBase == \E sel \in Selections : runs = <<>> /\ CopyAndRename(sel)

SpecBase == InitBase /\ [][NextBase]_vars

\* two copy_and_rename calls at the same time into every destination
InitRace ==
    /\ src = CopySource
    /\ dest \in SUBSET DestPool
    /\ base_name \in BaseNames
    /\ call = NoCall
    /\ ret = NoRet
    /\ runs = <<>>
    /\ resolved = NoResolved
    /\ \E sels \in [Procs -> Selections] : procs = [p \in Procs |-> Started(sels[p])]

NextRace ==
    \/ \E p \in Procs : RaceDigits(p)
    \/ \E p \in Procs : RaceScan(p)
    \/ \E p \in Procs : RaceCopy(p)

SpecRace == InitRace /\ [][NextRace]_vars

\* timestamp resolution of every kind of file
InitResolve ==
    /\ \E f \in NamePool, m \in AllMetas : src = [g \in {f} |-> m]
    /\ dest = {}
    /\ base_name = NoBase
    /\ call = NoCall
    /\ ret = NoRet
    /\ runs = <<>>
    /\ resolved = NoResolved
    /\ procs = NoProcs

NextResolve == \E f \in DOMAIN src : ResolveTimestamp(f)

SpecResolve == InitResolve /\ [][NextResolve]_vars

----------------------------------------------------------------------------
(* Properties of copy_and_rename (under SpecCopy).                         *)

\* the entries of a run's starting listing that its glob pattern matches
MatchingAtStart(r) == {f \in r.pre : GlobMatches(f, r.base, r.suffix)}

\* those of them whose text after the last underscore is an integer
ParsingAtStart(r) == {f \in MatchingAtStart(r) : CanParseInt(NumStr(f))}

\* the sequence numbers already in the destination when a run starts
NumbersAtStart(r) == {ParseInt(NumStr(f)) : f \in ParsingAtStart(r)}

\* the sequence numbers a run wrote, read back from the names it wrote
WrittenNums(r) == [j \in DOMAIN r.written |-> ParseInt(NumStr(r.written[j]))]

\* the number of digits of a sequence number
DigitCount(n) == Len(NatStr(IF n < 0 THEN 0 - n ELSE n))

\* C1: no name a copy_and_rename call writes is the name of a file that was
\* in the destination when the call started, whatever the destination held.
C1_NoPreexistingOverwritten ==
    \A i \in DOMAIN runs :
        \A j \in DOMAIN runs[i].written : runs[i].written[j] \notin runs[i].pre

\* the case of C2: two successive runs with non-empty selections and the same
\* base name and extension, the first starting from a destination whose
\* matching entries all carry integer suffixes (or that has none)
C2_Case(a, b) ==
    /\ a.selected # <<>>
    /\ b.selected # <<>>
    /\ a.base = b.base
    /\ a.suffix = b.suffix
    /\ ParsingAtStart(a) = MatchingAtStart(a)

\* C2: over two such runs no sequence number is used twice, the numbers
\* written increase strictly through both runs, and the second run starts at
\* the first run's last number plus one.
C2_NoReuseAcrossRuns ==
    \A i \in 1..(Len(runs) - 1) :
        LET a    == runs[i]
            b    == runs[i + 1]
            nums == WrittenNums(a) \o WrittenNums(b)
        IN  C2_Case(a, b) =>
                /\ \A j \in DOMAIN a.written : CanParseInt(NumStr(a.written[j]))
                /\ \A j \in DOMAIN b.written : CanParseInt(NumStr(b.written[j]))
                /\ \A p, q \in DOMAIN nums : p < q => nums[p] < nums[q]
                /\ \A p \in DOMAIN nums : nums[p] \notin NumbersAtStart(a)
                /\ WrittenNums(b)[1] = WrittenNums(a)[Len(a.written)] + 1
                /\ b.first = WrittenNums(a)[Len(a.written)] + 1

\* C2's case is reached: a second run follows a first one that found integer
\* suffixes in the destination, each copying two files
C2_Witness ==
    /\ Len(runs) >= 2
    /\ C2_Case(runs[1], runs[2])
    /\ MatchingAtStart(runs[1]) # {}
    /\ Len(runs[1].selected) = 2
    /\ Len(runs[2].selected) = 2

\* C3: the padding width of a run copying k files is
\* max(4, digitCount(maxExistingNumber + k)); it is at least 4 and no index
\* the run writes has more digits than it.
C3_WidthCoversBatch ==
    \A i \in DOMAIN runs :
        LET r   == runs[i]
            k   == Len(r.selected)
            top == SetMax({0} \cup NumbersAtStart(r))
        IN  /\ r.required_digits = Max(4, DigitCount(top + k))
            /\ r.required_digits >= 4
            /\ \A j \in DOMAIN r.written :
                   DigitCount(r.first + j - 1) <= r.required_digits

\* C4: an entry whose suffix is no integer is skipped: the first index of a
\* run is the highest suffix that parses plus one, and 1 only when none does.
\* (Stated for the runs that write a file and find no negative suffix.)
C4_FirstIndexSkipsUnparseable ==
    \A i \in DOMAIN runs :
        LET r == runs[i]
        IN  (r.selected # <<>> /\ \A n \in NumbersAtStart(r) : n >= 0) =>
                /\ r.first = IF NumbersAtStart(r) = {} THEN 1
                              ELSE SetMax(NumbersAtStart(r)) + 1
                /\ WrittenNums(r)[1] = r.first

----------------------------------------------------------------------------
(* Properties of the sampling policies (under SpecSelect).                 *)

\* the source files with a supported extension
Supported == {f \in DOMAIN src : Lower(Suffix(f)) \in SUPPORTED_EXTENSIONS}

\* a sorts before b: at the first position where they differ a has the
\* lower character, or a ends there
LexLess(a, b) ==
    \E p \in 1..(Len(b)) :
        /\ \A q \in 1..(p - 1) : q <= Len(a) /\ a[q] = b[q]
        /\ \/ p = Len(a) + 1
           \/ p <= Len(a) /\ Ord(a[p]) < Ord(b[p])

\* the position (from 0) of f in the sorted list of the files of S
RankIn(S, f) == Cardinality({g \in S : LexLess(g, f)})

\* l holds the elements at positions 0, k, 2k, ... of sorted S, in that
\* order: ceil(|S| / k) of them
IsStrideOf(l, S, k) ==
    /\ Len(l) * k >= Cardinality(S)
    /\ (Len(l) - 1) * k < Cardinality(S)
    /\ \A i \in DOMAIN l : l[i] \in S /\ RankIn(S, l[i]) = (i - 1) * k

\* C5: sample_every_nth(k), k >= 1, returns the ceil(N/k) elements at
\* positions 0, k, 2k, ... of the supported files sorted by name, and never
\* a file with an unsupported extension.
C5_StrideSelection ==
    (call.op = "sample_every_nth" /\ call.n >= 1) =>
        /\ ret.kind = "list"
        /\ IsStrideOf(ret.val, Supported, call.n)

\* C5's case is reached: stride 2 over three supported files beside an
\* unsupported one returns two of them
C5_Witness ==
    /\ call.op = "sample_every_nth"
    /\ call.n = 2
    /\ Cardinality(Supported) = 3
    /\ Supported # DOMAIN src
    /\ ret.kind = "list"
    /\ Len(ret.val) = 2

\* C6: sample_every_nth and sample_every_nth_in_time_range called with
\* n <= 0 end in an error and never return a selection.
C6_NonPositiveStrideRejected ==
    (call.op \in {"sample_every_nth", "sample_every_nth_in_time_range"} /\ call.n <= 0) =>
        ret.kind = "raise"

\* minutes between the time of day of dt and t, not wrapping at midnight
PlainMinutes(dt, t) ==
    LET a == dt.hour * 60 + dt.minute
        b == t.hour * 60 + t.minute
    IN  IF a >= b THEN a - b ELSE b - a

\* the same distance taken around the clock
ClockMinutes(dt, t) ==
    IF PlainMinutes(dt, t) > 720 THEN 1440 - PlainMinutes(dt, t) ELSE PlainMinutes(dt, t)

\* the dates on which some supported file was captured
CaptureDates == {ResolvedOf(f).date : f \in Supported}

\* C7: sample_closest_to_time returns one path per date that has an image,
\* the path of a date being at the least plain minute-of-day distance from
\* the target among that date's images, and the result is sorted by path.
C7_ClosestPerDate ==
    (call.op = "sample_closest_to_time" /\ ~ResolveRaises) =>
        /\ ret.kind = "list"
        /\ Len(ret.val) = Cardinality(CaptureDates)
        /\ \A d \in CaptureDates :
               \E i \in DOMAIN ret.val : ResolvedOf(ret.val[i]).date = d
        /\ \A i \in DOMAIN ret.val :
               /\ ret.val[i] \in Supported
               /\ \A g \in Supported :
                      ResolvedOf(g).date = ResolvedOf(ret.val[i]).date =>
                          PlainMinutes(ResolvedOf(ret.val[i]), call.target)
                              <= PlainMinutes(ResolvedOf(g), call.target)
        /\ \A i, j \in DOMAIN ret.val : i < j => LexLess(ret.val[i], ret.val[j])

\* C7's case is reached: two dates, and on one of them an image left out
\* that is nearer to the target around the clock than the one returned
C7_Witness ==
    /\ call.op = "sample_closest_to_time"
    /\ ret.kind = "list"
    /\ Len(ret.val) = 2
    /\ \E i \in DOMAIN ret.val : \E g \in Supported :
           /\ ResolvedOf(g).date = ResolvedOf(ret.val[i]).date
           /\ ClockMinutes(ResolvedOf(g), call.target)
                  < ClockMinutes(ResolvedOf(ret.val[i]), call.target)

\* seconds since midnight
SecondOfDay(t) == t.hour * 3600 + t.minute * 60 + t.second

\* t lies in [start, end], both ends included, the range wrapping past
\* midnight when start > end
InRange(t, start, end) ==
    IF SecondOfDay(start) <= SecondOfDay(end)
    THEN SecondOfDay(start) <= SecondOfDay(t) /\ SecondOfDay(t) <= SecondOfDay(end)
    ELSE SecondOfDay(t) >= SecondOfDay(start) \/ SecondOfDay(t) <= SecondOfDay(end)

\* the supported files whose time of day lies in the range of the call
KeptInRange ==
    {f \in Supported : InRange(TimeOf(ResolvedOf(f)), call.start, call.end)}

\* C8: sample_every_nth_in_time_range(n, start, end), n >= 1, returns the
\* elements at positions 0, n, 2n, ... of the path-sorted list of exactly the
\* supported files whose time of day is in the range.
C8_RangeThenStride ==
    (call.op = "sample_every_nth_in_time_range" /\ call.n >= 1 /\ ~ResolveRaises) =>
        /\ ret.kind = "list"
        /\ IsStrideOf(ret.val, KeptInRange, call.n)

\* C8's case is reached: a range wrapping past midnight keeps three files,
\* one of them exactly at its end, and stride 2 returns two
C8_Witness ==
    /\ call.op = "sample_every_nth_in_time_range"
    /\ call.n = 2
    /\ SecondOfDay(call.start) > SecondOfDay(call.end)
    /\ ret.kind = "list"
    /\ Len(ret.val) = 2
    /\ Cardinality(KeptInRange) = 3
    /\ \E f \in KeptInRange : TimeOf(ResolvedOf(f)) = call.end

----------------------------------------------------------------------------
(* Properties of timestamp resolution (under SpecResolve).                 *)

\* the metadata of the file last resolved
ResolvedMeta == src[resolved.file]

\* the capture time by priority, each source falling through to the next:
\* tag 36867 if it parses, else tag 306 if it parses, else the file's mtime
CaptureByPriority(m) ==
    IF m.exif = "dict" /\ m.t36867.st = "ok" THEN m.t36867.dt
    ELSE IF m.exif = "dict" /\ m.t306.st = "ok" THEN m.t306.dt
    ELSE m.mtime

\* C9: the capture time is tag 36867 if present and parseable, otherwise tag
\* 306 if present and parseable, otherwise the modification time; tag 306
\* is the result when tag 36867 is present and fails to parse.
C9_PerSourceFallThrough ==
    (resolved.exc = "none" /\ ResolvedMeta.open = "ok") =>
        resolved.dt = CaptureByPriority(ResolvedMeta)

\* C10: resolution is total: an error raised while opening the file or
\* reading its metadata is swallowed and the modification time is returned.
C10_ResolutionTotal ==
    resolved.exc # "unset" =>
        /\ resolved.exc = "none"
        /\ ResolvedMeta.open # "ok" => resolved.dt = ResolvedMeta.mtime

----------------------------------------------------------------------------
(* Properties of the base name (under SpecBase).                           *)

\* the supported source file that sorts first
IsFirstSupported(f) == f \in Supported /\ \A g \in Supported \ {f} : LexLess(f, g)

\* s is t cut before its last underscore, or t itself when t has none
IsCutBeforeLastUnderscore(s, t) ==
    IF \E i \in DOMAIN t : t[i] = "_"
    THEN /\ Len(s) < Len(t)
         /\ \A i \in DOMAIN s : s[i] = t[i]
         /\ t[Len(s) + 1] = "_"
         /\ \A i \in (Len(s) + 2)..Len(t) : t[i] # "_"
    ELSE s = t

\* s is t with every "CO" turned into "SM": position by position, a "C"
\* before an "O" is "S", an "O" after a "C" is "M", the rest is unchanged
IsCOtoSM(s, t) ==
    /\ Len(s) = Len(t)
    /\ \A i \in DOMAIN t :
           s[i] = IF t[i] = "C" /\ i < Len(t) /\ t[i + 1] = "O" THEN "S"
                  ELSE IF t[i] = "O" /\ i > 1 /\ t[i - 1] = "C" THEN "M"
                  ELSE t[i]

\* the name of f without its extension
IsStemOf(s, f) == s \o Suffix(f) = f

\* C11: with no base name supplied, the base name is derived from the
\* supported source file that sorts first: its name without extension, cut
\* before its last underscore, every "CO" replaced by "SM"; it is "image"
\* when the source directory holds no supported image.
C11_DefaultBaseName ==
    \A i \in DOMAIN runs :
        ~base_name.given =>
            IF Supported = {} THEN runs[i].base = <<"i", "m", "a", "g", "e">>
            ELSE \E f \in Supported :
                     /\ IsFirstSupported(f)
                     /\ \E n \in 0..Len(f) : \E m \in 0..n :
                            /\ IsStemOf(Upto(f, n), f)
                            /\ IsCutBeforeLastUnderscore(Upto(f, m), Upto(f, n))
                            /\ IsCOtoSM(runs[i].base, Upto(f, m))

\* C11's case is reached: the first supported file, after an unsupported
\* one, has two underscores and "CO" twice, and a file is written
C11_Witness ==
    /\ runs # <<>>
    /\ ~base_name.given
    /\ IsFirstSupported(COCO_a_01_jpg)
    /\ A_txt \in DOMAIN src
    /\ runs[1].base = <<"S", "M", "S", "M", "_", "a">>
    /\ runs[1].written # <<>>

\* a name made of base, an underscore, a number and an extension
IsNumberedName(name, base) ==
    /\ StartsWith(name, base \o <<"_">>)
    /\ \E n \in (Len(base) + 1)..Len(name) :
           /\ CanParseInt(SubSeq(name, Len(base) + 2, n))
           /\ Lower(From(name, n)) \in SUPPORTED_EXTENSIONS

\* C12: with a base name supplied, every file copy_and_rename writes is
\* named with exactly that base name and an underscore before the number:
\* the source file names and the CO -> SM substitution have no part in it.
C12_SuppliedBaseNameKept ==
    \A i \in DOMAIN runs :
        base_name.given =>
            /\ runs[i].base = base_name.name
            /\ \A j \in DOMAIN runs[i].written :
                   IsNumberedName(runs[i].written[j], base_name.name)

\* C12's case is reached: the supplied name holds "CO", the source's first
\* file would give the default "SMSM_a", and two files are written
C12_Witness ==
    /\ runs # <<>>
    /\ base_name = Base(<<"C", "O">>)
    /\ IsFirstSupported(COCO_a_01_jpg)
    /\ Len(runs[1].written) = 2
    /\ runs[1].written[1] = <<"C", "O", "_", "0", "0", "0", "1", ".", "j", "p", "g">>

----------------------------------------------------------------------------
(* Properties of the names of one run (under SpecCopy).                    *)

\* name is base, an underscore, the number n written with zeros in front up
\* to w characters (more when n needs more), and ext
IsIndexedName(name, base, n, w, ext) ==
    LET d == SubSeq(name, Len(base) + 2, Len(name) - Len(ext))
    IN  /\ name = base \o <<"_">> \o d \o ext
        /\ CanParseInt(d)
        /\ ParseInt(d) = n
        /\ Len(d) = Max(w, Len(IntStr(n)))
        /\ \A p \in DOMAIN d : Len(d) > Len(IntStr(n)) /\ p <= Len(d) - DigitCount(n)
                                   => d[p] \in {"0", "-"}

\* C13: in one call over k paths the i-th path (from 0) is copied to
\* base, "_", firstIndex + i padded to the computed width, and the
\* extension of the first selected file; k files are written, with
\* consecutive indices, all with that extension.
C13_ConsecutiveNamesFirstExtension ==
    \A r \in {runs[i] : i \in DOMAIN runs} :
        /\ Len(r.written) = Len(r.selected)
        /\ Cardinality({r.written[j] : j \in DOMAIN r.written}) = Len(r.selected)
        /\ \A j \in DOMAIN r.written :
               /\ r.written[j] \in dest
               /\ IsIndexedName(r.written[j], r.base, r.first + (j - 1),
                                r.required_digits, Suffix(r.selected[1]))
               /\ Suffix(r.written[j]) = Suffix(r.selected[1])

\* C13's case is reached: a .jpg and a .png are copied, in that order, into
\* a destination that already holds SM_0001.jpg, both under .jpg names
C13_Witness ==
    /\ runs # <<>>
    /\ runs[1].selected = <<CO_013_jpg, a_png>>
    /\ SM_0001_jpg \in runs[1].pre
    /\ runs[1].first = 2
    /\ runs[1].written = << <<"S", "M", "_", "0", "0", "0", "2", ".", "j", "p", "g">>,
                            <<"S", "M", "_", "0", "0", "0", "3", ".", "j", "p", "g">> >>

----------------------------------------------------------------------------
(* Properties of calls running at the same time (under SpecRace).          *)

\* the case of C14: both calls copy something under the same base name and
\* extension, and both have read the destination, all of whose matching
\* entries carry integer suffixes, before either wrote a file
C14_Case ==
    LET a == procs["p1"]
        b == procs["p2"]
    IN  /\ a.pc \in {"copy", "done"} /\ b.pc \in {"copy", "done"}
        /\ a.selected # <<>> /\ b.selected # <<>>
        /\ a.base = b.base /\ a.suffix = b.suffix
        /\ a.clean /\ b.clean
        /\ \A f \in ExistingFiles(a.seen, a.base, a.suffix) : CanParseInt(NumStr(f))

\* C14: two calls that both read the destination before either writes
\* allocate the same first index, and once both are done the destination
\* holds only as many new files as the longer selection: fewer than were
\* copied.
C14_RaceLosesFiles ==
    LET a == procs["p1"]
        b == procs["p2"]
    IN  (DOMAIN procs = Procs /\ C14_Case) =>
            /\ a.seen = b.seen
            /\ a.next_num = b.next_num
            /\ (a.pc = "done" /\ b.pc = "done") =>
                   /\ Cardinality(dest \ a.seen) = Max(Len(a.selected), Len(b.selected))
                   /\ Cardinality(dest \ a.seen) < Len(a.selected) + Len(b.selected)

\* C14's case is reached: both calls copied two files after SM_0001.jpg,
\* both from index 2, and only two files were added
C14_Witness ==
    /\ DOMAIN procs = Procs
    /\ C14_Case
    /\ procs["p1"].pc = "done" /\ procs["p2"].pc = "done"
    /\ SM_0001_jpg \in procs["p1"].seen
    /\ procs["p1"].next_num = 2 /\ procs["p2"].next_num = 2
    /\ procs["p1"].selected # procs["p2"].selected
    /\ Len(procs["p1"].selected) = 2 /\ Len(procs["p2"].selected) = 2
    /\ Cardinality(dest \ procs["p1"].seen) = 2

============================================================================
